---- MODULE Spec2Model ----
(***************************************************************************)
(* Model of rn-concordium-deeplink: the schema/message encoding helpers,   *)
(* withJsonRpcClient, the WalletConnection / WalletConnectionDelegate      *)
(* contracts, the deep-link button handler and the Counter component.      *)
(*                                                                         *)
(* A JavaScript string is a sequence of its characters, each a             *)
(* one-character string (or the name of its code point, "U+00A0", where    *)
(* the character cannot be written); a Buffer is a sequence of bytes       *)
(* (0..255).                                                               *)
(***************************************************************************)
EXTENDS Integers, Sequences, FiniteSets, TLC

VARIABLES
    call,         \* helpers: the constructor call evaluated, [op, args]
    ret,          \* helpers: what that call produced (a value or a thrown Error)
    invocations,  \* withJsonRpcClient: one record per invocation of the function
    txCall,       \* signAndSendTransaction: the call made on the connection
    txState,      \* signAndSendTransaction: state of the promise it returned
    walletInbox,  \* signAndSendTransaction: requests that reached the wallet
    pendingOpens, \* deep link: Linking.openURL promises not settled yet
    openFailures, \* deep link: the values openURL failed with, in order
    alerts,       \* deep link: the messages handed to Alert.alert, in order
    presses,      \* deep link: presses of the button so far
    accounts,     \* delegate: last-known account per connection
    chains,       \* delegate: last-known genesis hash per connection
    reactions,    \* delegate: downstream effects triggered so far
    lastNotif,    \* delegate: the notification delivered last
    obsBefore,    \* delegate: the delegate's state just before that delivery
    count,        \* Counter: the state variable count, as displayed
    pressLog,     \* Counter: the buttons pressed so far, in order
    countLog      \* Counter: the counts displayed so far, the first included

vars == <<call, ret, invocations, txCall, txState, walletInbox, pendingOpens,
          openFailures, alerts, presses, accounts, chains, reactions, lastNotif,
          obsBefore, count, pressLog, countLog>>

helperVars == <<call, ret>>
rpcVars == <<invocations>>
txVars == <<txCall, txState, walletInbox>>
linkVars == <<pendingOpens, openFailures, alerts, presses>>
delegateVars == <<accounts, chains, reactions, lastNotif, obsBefore>>
counterVars == <<count, pressLog, countLog>>

\* what a step of one component leaves alone
notHelperVars == <<rpcVars, txVars, linkVars, delegateVars, counterVars>>
notRpcVars == <<helperVars, txVars, linkVars, delegateVars, counterVars>>
notTxVars == <<helperVars, rpcVars, linkVars, delegateVars, counterVars>>
notLinkVars == <<helperVars, rpcVars, txVars, delegateVars, counterVars>>
notDelegateVars == <<helperVars, rpcVars, txVars, linkVars, counterVars>>
notCounterVars == <<helperVars, rpcVars, txVars, linkVars, delegateVars>>

(***************************************************************************)
(* Bounds of the model.                                                    *)
(***************************************************************************)
MaxTextLen == 4
MaxLongLen == 8
MaxBytesLen == 2
MaxSchemaLen == 1
MaxInvocations == 2
MaxPresses == 3
MaxReactions == 3
MaxCounterPresses == 7

\* Sequences over S of length 0..n
RECURSIVE SeqsUpTo(_, _)
SeqsUpTo(S, n) ==
    IF n = 0 THEN {<<>>}
    ELSE LET shorter == SeqsUpTo(S, n - 1)
         IN  shorter \cup {Append(s, x) : s \in {t \in shorter : Len(t) = n - 1}, x \in S}

\* Characters the input strings are drawn from: base64 digits that are also
\* hex digits ("A", "E", "a", "0"), a base64 digit that is no hex digit ("g"),
\* the padding character, the URL-safe digit and sign "-", a blank and a
\* form feed.
TextChars == {"A", "E", "a", "g", "0", "=", "-", " ", "\f"}

\* Characters of the longer input strings (more than one base64 quantum,
\* several hex bytes): a lowercase and an uppercase hex digit, and '='.
LongChars == {"a", "E", "="}

Texts == SeqsUpTo(TextChars, MaxTextLen) \cup SeqsUpTo(LongChars, MaxLongLen)

ByteVals == {0, 1, 255}
ByteSeqs == SeqsUpTo(ByteVals, MaxBytesLen)

\* SchemaVersion of @concordium/node-sdk, and an omitted argument
SchemaVersions == {"V0", "V1", "V2"}
Undefined == "undefined"
VersionArgs == SchemaVersions \cup {Undefined}

(***************************************************************************)
(* Buffer.from(s, 'base64') and buf.toString('base64') of the 'buffer/'    *)
(* package (base64-js), reached through toBuffer.                          *)
(***************************************************************************)
\* base64-js: code / lookup
B64Code == <<"A","B","C","D","E","F","G","H","I","J","K","L","M",
             "N","O","P","Q","R","S","T","U","V","W","X","Y","Z",
             "a","b","c","d","e","f","g","h","i","j","k","l","m",
             "n","o","p","q","r","s","t","u","v","w","x","y","z",
             "0","1","2","3","4","5","6","7","8","9","+","/">>

B64Digits == {B64Code[i] : i \in 1..64}

\* base64-js: revLookup, which also takes the URL-safe '-' and '_'
RevLookup(c) ==
    IF c = "-" THEN 62
    ELSE IF c = "_" THEN 63
    ELSE (CHOOSE i \in 1..64 : B64Code[i] = c) - 1

\* INVALID_BASE64_RE = /[^+/0-9A-Za-z-_]/g matches every other character
IsBase64Char(c) == c \in B64Digits \cup {"-", "_"}

\* str.split('=')[0]
RECURSIVE BeforeEquals(_)
BeforeEquals(s) ==
    IF s = <<>> \/ Head(s) = "=" THEN <<>>
    ELSE <<Head(s)>> \o BeforeEquals(Tail(s))

\* base64clean without the final re-padding: cut at the first '=', trim and
\* strip the invalid characters, and a string shorter than 2 becomes ''
Base64Clean(s) ==
    LET kept == SelectSeq(BeforeEquals(s), IsBase64Char)
    IN  IF Len(kept) < 2 THEN <<>> ELSE kept

\* base64-js toByteArray on the cleaned, re-padded string: every full group
\* of four digits gives three bytes; two digits left give one byte, three
\* give two bytes, and a single digit left gives none.
RECURSIVE ToByteArray(_)
ToByteArray(d) ==
    IF Len(d) >= 4 THEN
        LET tmp == RevLookup(d[1]) * 262144 + RevLookup(d[2]) * 4096
                   + RevLookup(d[3]) * 64 + RevLookup(d[4])
        IN  <<(tmp \div 65536) % 256, (tmp \div 256) % 256, tmp % 256>>
            \o ToByteArray(SubSeq(d, 5, Len(d)))
    ELSE IF Len(d) = 2 THEN
        <<(RevLookup(d[1]) * 4 + (RevLookup(d[2]) \div 16)) % 256>>
    ELSE IF Len(d) = 3 THEN
        LET tmp == RevLookup(d[1]) * 1024 + RevLookup(d[2]) * 16
                   + (RevLookup(d[3]) \div 4)
        IN  <<(tmp \div 256) % 256, tmp % 256>>
    ELSE <<>>

\* toBuffer(s, 'base64')
FromBase64(s) == ToByteArray(Base64Clean(s))

\* base64-js fromByteArray: buf.toString('base64')
RECURSIVE ToBase64(_)
ToBase64(b) ==
    IF Len(b) >= 3 THEN
        LET tmp == b[1] * 65536 + b[2] * 256 + b[3]
        IN  <<B64Code[((tmp \div 262144) % 64) + 1], B64Code[((tmp \div 4096) % 64) + 1],
              B64Code[((tmp \div 64) % 64) + 1], B64Code[(tmp % 64) + 1]>>
            \o ToBase64(SubSeq(b, 4, Len(b)))
    ELSE IF Len(b) = 1 THEN
        <<B64Code[(b[1] \div 4) + 1], B64Code[((b[1] * 16) % 64) + 1], "=", "=">>
    ELSE IF Len(b) = 2 THEN
        LET tmp == b[1] * 256 + b[2]
        IN  <<B64Code[(tmp \div 1024) + 1], B64Code[((tmp \div 16) % 64) + 1],
              B64Code[((tmp * 4) % 64) + 1], "=">>
    ELSE <<>>

(***************************************************************************)
(* Buffer.from(s, 'hex') and buf.toString('hex') of the 'buffer/' package. *)
(***************************************************************************)
HexCode == <<"0","1","2","3","4","5","6","7","8","9","a","b","c","d","e","f">>
HexUpper == <<"0","1","2","3","4","5","6","7","8","9","A","B","C","D","E","F">>

IsHexDigit(c) == \E i \in 1..16 : HexCode[i] = c \/ HexUpper[i] = c
HexValue(c) == (CHOOSE i \in 1..16 : HexCode[i] = c \/ HexUpper[i] = c) - 1

\* StrWhiteSpaceChar of ECMAScript, which parseInt skips (as trimStart does):
\* WhiteSpace (TAB, VT, FF, SP, NBSP, ZWNBSP and the space separators) and
\* LineTerminator (LF, CR, LS, PS). A character that cannot be written in a
\* string here stands as the name of its code point.
StrWhiteSpaceChars ==
    {"\t", "\n", "U+000B", "\f", "\r", " ", "U+00A0", "U+1680",
     "U+2000", "U+2001", "U+2002", "U+2003", "U+2004", "U+2005", "U+2006",
     "U+2007", "U+2008", "U+2009", "U+200A", "U+2028", "U+2029", "U+202F",
     "U+205F", "U+3000", "U+FEFF"}

IsWhiteSpace(c) == c \in StrWhiteSpaceChars

\* a JavaScript number that is either NaN or an integer
NaN == [isNaN |-> TRUE, n |-> 0]
Num(k) == [isNaN |-> FALSE, n |-> k]

RECURSIVE SkipWhiteSpace(_)
SkipWhiteSpace(s) ==
    IF s # <<>> /\ IsWhiteSpace(Head(s)) THEN SkipWhiteSpace(Tail(s)) ELSE s

\* the value of the longest prefix of hex digits, acc being the digits read
RECURSIVE HexPrefix(_, _, _)
HexPrefix(s, acc, seen) ==
    IF s # <<>> /\ IsHexDigit(Head(s))
    THEN HexPrefix(Tail(s), acc * 16 + HexValue(Head(s)), TRUE)
    ELSE IF seen THEN Num(acc) ELSE NaN

\* parseInt(s, 16): leading blanks skipped, an optional sign, an optional
\* 0x / 0X, then the longest prefix of hex digits; NaN when there is none
ParseInt16(s) ==
    LET t == SkipWhiteSpace(s)
        negative == t # <<>> /\ Head(t) = "-"
        u == IF t # <<>> /\ Head(t) \in {"-", "+"} THEN Tail(t) ELSE t
        w == IF Len(u) >= 2 /\ u[1] = "0" /\ u[2] \in {"x", "X"}
             THEN SubSeq(u, 3, Len(u)) ELSE u
        p == HexPrefix(w, 0, FALSE)
    IN  IF p.isNaN THEN NaN ELSE IF negative THEN Num(0 - p.n) ELSE p

\* hexWrite: one byte per two characters, stopping at the first pair that
\* parseInt makes NaN; a byte is stored modulo 256. A trailing odd character
\* is not read (byteLength is length >>> 1).
RECURSIVE HexWrite(_)
HexWrite(s) ==
    IF Len(s) < 2 THEN <<>>
    ELSE LET parsed == ParseInt16(SubSeq(s, 1, 2))
         IN  IF parsed.isNaN THEN <<>>
             ELSE <<(parsed.n + 256) % 256>> \o HexWrite(SubSeq(s, 3, Len(s)))

\* toBuffer(s, 'hex')
FromHex(s) == HexWrite(s)

\* buf.toString('hex')
RECURSIVE ToHex(_)
ToHex(b) ==
    IF b = <<>> THEN <<>>
    ELSE <<HexCode[(b[1] \div 16) + 1], HexCode[(b[1] % 16) + 1]>> \o ToHex(Tail(b))

(***************************************************************************)
(* The schema and message constructors of app.tsx.                         *)
(***************************************************************************)
\* what evaluating a call produces: a value, or a thrown Error
Returned(v) == [status |-> "returned", value |-> v]
Threw(msg) == [status |-> "threw", value |-> [type |-> "Error", message |-> msg]]

moduleSchema(schema, version) ==
    [type |-> "ModuleSchema", value |-> schema, version |-> version]

\* a copy-paste slip: the discriminant of the other variant
typeSchema_WrongTag(schema) ==
    [type |-> "ModuleSchema", value |-> schema]

typeSchema(schema) ==
    [type |-> "TypeSchema", value |-> schema]

\* the decoding without the round-trip check
schemaAsBuffer_NoRoundTrip(schemaBase64) ==
    Returned(FromBase64(schemaBase64))

schemaAsBuffer(schemaBase64) ==
    LET res == FromBase64(schemaBase64)
    IN  IF ToBase64(res) # schemaBase64
        THEN Threw(<<"provided schema '">> \o schemaBase64 \o <<"' is not valid base64">>)
        ELSE Returned(res)

\* the version argument not passed on
moduleSchemaFromBase64_DropsVersion(schemaBase64, version) ==
    LET buf == schemaAsBuffer(schemaBase64)
    IN  IF buf.status = "threw" THEN buf
        ELSE Returned(moduleSchema(buf.value, Undefined))

moduleSchemaFromBase64(schemaBase64, version) ==
    LET buf == schemaAsBuffer(schemaBase64)
    IN  IF buf.status = "threw" THEN buf
        ELSE Returned(moduleSchema(buf.value, version))

\* decoding with toBuffer directly instead of schemaAsBuffer
typeSchemaFromBase64_Unchecked(schemaBase64) ==
    Returned(typeSchema(FromBase64(schemaBase64)))

typeSchemaFromBase64(schemaBase64) ==
    LET buf == schemaAsBuffer(schemaBase64)
    IN  IF buf.status = "threw" THEN buf
        ELSE Returned(typeSchema(buf.value))

stringMessage(msg) ==
    [type |-> "StringMessage", value |-> msg]

\* the decoding without the round-trip check
messageAsBuffer_NoRoundTrip(msgHex) ==
    Returned(FromHex(msgHex))

messageAsBuffer(msgHex) ==
    LET res == FromHex(msgHex)
    IN  IF ToHex(res) # msgHex
        THEN Threw(<<"provided message '">> \o msgHex \o <<"' is not valid hex">>)
        ELSE Returned(res)

binaryMessageFromHex(msgHex, schema) ==
    LET buf == messageAsBuffer(msgHex)
    IN  IF buf.status = "threw" THEN buf
        ELSE Returned([type |-> "BinaryMessage", value |-> buf.value, schema |-> schema])

\* the TypeSchema arguments binaryMessageFromHex is called with
SchemaArgs == {typeSchema(b) : b \in SeqsUpTo({255}, MaxSchemaLen)}

NoCall == [op |-> "none", args |-> <<>>]
NoRet == [status |-> "none", value |-> <<>>]

InitHelpers ==
    /\ call = NoCall
    /\ ret = NoRet

\* The program evaluates one constructor call.
CallModuleSchemaFromBase64 ==
    /\ call = NoCall
    /\ UNCHANGED notHelperVars
    /\ \E s \in Texts, v \in VersionArgs :
        /\ call' = [op |-> "moduleSchemaFromBase64",
                    args |-> [schemaBase64 |-> s, version |-> v]]
        /\ ret' = moduleSchemaFromBase64(s, v)

CallModuleSchema ==
    /\ call = NoCall
    /\ UNCHANGED notHelperVars
    /\ \E b \in ByteSeqs, v \in VersionArgs :
        /\ call' = [op |-> "moduleSchema", args |-> [schema |-> b, version |-> v]]
        /\ ret' = Returned(moduleSchema(b, v))

CallTypeSchemaFromBase64 ==
    /\ call = NoCall
    /\ UNCHANGED notHelperVars
    /\ \E s \in Texts :
        /\ call' = [op |-> "typeSchemaFromBase64", args |-> [schemaBase64 |-> s]]
        /\ ret' = typeSchemaFromBase64(s)

CallTypeSchema ==
    /\ call = NoCall
    /\ UNCHANGED notHelperVars
    /\ \E b \in ByteSeqs :
        /\ call' = [op |-> "typeSchema", args |-> [schema |-> b]]
        /\ ret' = Returned(typeSchema(b))

CallStringMessage ==
    /\ call = NoCall
    /\ UNCHANGED notHelperVars
    /\ \E m \in Texts :
        /\ call' = [op |-> "stringMessage", args |-> [msg |-> m]]
        /\ ret' = Returned(stringMessage(m))

CallBinaryMessageFromHex ==
    /\ call = NoCall
    /\ UNCHANGED notHelperVars
    /\ \E h \in Texts, sch \in SchemaArgs :
        /\ call' = [op |-> "binaryMessageFromHex", args |-> [msgHex |-> h, schema |-> sch]]
        /\ ret' = binaryMessageFromHex(h, sch)

HelpersNext ==
    \/ CallModuleSchemaFromBase64
    \/ CallModuleSchema
    \/ CallTypeSchemaFromBase64
    \/ CallTypeSchema
    \/ CallStringMessage
    \/ CallBinaryMessageFromHex

(***************************************************************************)
(* Promises.                                                               *)
(***************************************************************************)
Pending == [state |-> "pending", value |-> "none"]
Fulfilled(v) == [state |-> "fulfilled", value |-> v]
Rejected(e) == [state |-> "rejected", value |-> e]

(***************************************************************************)
(* withJsonRpcClient(connection, f).                                       *)
(***************************************************************************)
Clients == {"client1", "client2"}
Errors == {"error1", "error2"}
Values == {"value1", "value2"}

\* what connection.getJsonRpcClient() does when called
ConnectionArgs ==
    {[kind |-> "returns", v |-> c] : c \in Clients}
    \cup {[kind |-> "throws", v |-> e] : e \in Errors}

\* what f does when invoked: it throws, or returns a promise that later
\* resolves or rejects
FArgs ==
    {[kind |-> "resolves", v |-> x] : x \in Values}
    \cup {[kind |-> "rejects", v |-> e] : e \in Errors}
    \cup {[kind |-> "throws", v |-> e] : e \in Errors}

\* the outcome of the promise f returned
Outcome(f) == IF f.kind = "resolves" THEN Fulfilled(f.v) ELSE Rejected(f.v)

\* The body of the async function up to its return: the argument
\* connection.getJsonRpcClient() is evaluated first; a throw there, or in f,
\* rejects the returned promise; otherwise the returned promise follows the
\* promise f returned (settlesTo).
\* the client resolved inside a try block, f invoked regardless
withJsonRpcClient_CallsAnyway(connection, f) ==
    LET client == IF connection.kind = "throws" THEN Undefined ELSE connection.v
    IN  IF f.kind = "throws"
        THEN [fCalledWith |-> <<client>>, promise |-> Rejected(f.v), settlesTo |-> Rejected(f.v)]
        ELSE [fCalledWith |-> <<client>>, promise |-> Pending, settlesTo |-> Outcome(f)]

\* a failure of f reported as a new error instead of f's own
withJsonRpcClient_WrapsError(connection, f) ==
    IF connection.kind = "throws"
    THEN [fCalledWith |-> <<>>, promise |-> Rejected(connection.v), settlesTo |-> Rejected(connection.v)]
    ELSE IF f.kind = "throws"
    THEN [fCalledWith |-> <<connection.v>>, promise |-> Rejected("wrapped"), settlesTo |-> Rejected("wrapped")]
    ELSE [fCalledWith |-> <<connection.v>>, promise |-> Pending,
          settlesTo |-> IF f.kind = "resolves" THEN Fulfilled(f.v) ELSE Rejected("wrapped")]

withJsonRpcClient(connection, f) ==
    IF connection.kind = "throws"
    THEN [fCalledWith |-> <<>>, promise |-> Rejected(connection.v), settlesTo |-> Rejected(connection.v)]
    ELSE IF f.kind = "throws"
    THEN [fCalledWith |-> <<connection.v>>, promise |-> Rejected(f.v), settlesTo |-> Rejected(f.v)]
    ELSE [fCalledWith |-> <<connection.v>>, promise |-> Pending, settlesTo |-> Outcome(f)]

InitRpc == invocations = <<>>

WithJsonRpcClientCall ==
    /\ Len(invocations) < MaxInvocations
    /\ UNCHANGED notRpcVars
    /\ \E connection \in ConnectionArgs, f \in FArgs :
        LET r == withJsonRpcClient(connection, f)
        IN  invocations' = Append(invocations,
                [connection |-> connection, f |-> f, fCalledWith |-> r.fCalledWith,
                 promise |-> r.promise, settlesTo |-> r.settlesTo])

\* the promise f returned settles, and the promise of the invocation with it
FPromiseSettles ==
    \E i \in DOMAIN invocations :
        /\ UNCHANGED notRpcVars
        /\ invocations[i].promise = Pending
        /\ invocations' = [invocations EXCEPT ![i].promise = invocations[i].settlesTo]

RpcNext == WithJsonRpcClientCall \/ FPromiseSettles

(***************************************************************************)
(* WalletConnection.signAndSendTransaction: the interface declares it and  *)
(* documents its precondition; the check follows that documentation.       *)
(***************************************************************************)
AccountAddresses == {"addr1", "addr2"}
TransactionTypes == {"Transfer", "DeployModule", "InitContract", "Update"}
ContractTypes == {"InitContract", "Update"}
Payloads == {"payload1", "payload2"}
Parameters == {"empty", "nonEmpty"}
TxHashes == {"hash1", "hash2"}

\* typedParams must be given exactly for a contract init/update whose
\* parameters are not empty
NeedsTypedParams(type, parameters) ==
    type \in ContractTypes /\ parameters = "nonEmpty"

\* every request handed to the wallet as it comes
signAndSendTransaction_Unchecked(accountAddress, type, payload, parameters, hasTypedParams) ==
    [sent |-> TRUE, promise |-> Pending]

\* parameters: the parameters of the contract invocation; hasTypedParams:
\* whether the caller passed them (with a schema) as typedParams
signAndSendTransaction(accountAddress, type, payload, parameters, hasTypedParams) ==
    IF hasTypedParams # NeedsTypedParams(type, parameters)
    THEN [sent |-> FALSE, promise |-> Rejected("PreconditionViolation")]
    ELSE [sent |-> TRUE, promise |-> Pending]

NoTx == [op |-> "none"]

InitTx ==
    /\ txCall = NoTx
    /\ txState = Pending
    /\ walletInbox = <<>>

SignAndSendTransactionCall ==
    /\ txCall = NoTx
    /\ UNCHANGED notTxVars
    /\ \E a \in AccountAddresses, ty \in TransactionTypes, p \in Payloads,
          ps \in Parameters, tp \in BOOLEAN :
        LET r == signAndSendTransaction(a, ty, p, ps, tp)
        IN  /\ txCall' = [op |-> "signAndSendTransaction", accountAddress |-> a,
                          type |-> ty, payload |-> p, parameters |-> ps,
                          hasTypedParams |-> tp]
            /\ txState' = r.promise
            /\ walletInbox' = IF r.sent
                              THEN Append(walletInbox, [sender |-> a, type |-> ty,
                                                        payload |-> p, typed |-> tp])
                              ELSE walletInbox

\* the wallet approves and submits the request
WalletApproves ==
    /\ txCall # NoTx
    /\ txState = Pending
    /\ walletInbox # <<>>
    /\ \E h \in TxHashes : txState' = Fulfilled(h)
    /\ UNCHANGED <<txCall, walletInbox, notTxVars>>

\* the wallet rejects the request, or submitting it fails
WalletRejects ==
    /\ txCall # NoTx
    /\ txState = Pending
    /\ walletInbox # <<>>
    /\ \E e \in Errors : txState' = Rejected(e)
    /\ UNCHANGED <<txCall, walletInbox, notTxVars>>

TxNext == SignAndSendTransactionCall \/ WalletApproves \/ WalletRejects

(***************************************************************************)
(* components/deep-link.tsx: concordiumDeepLinkHandle.                     *)
(***************************************************************************)
Messages == {"message1", "message2"}

\* the values Linking.openURL can fail with: Error instances, a plain
\* object that has a message without being an Error, a string
ThrownValues ==
    {[instanceOfError |-> TRUE, message |-> m] : m \in Messages}
    \cup {[instanceOfError |-> FALSE, message |-> "message1"],
          [instanceOfError |-> FALSE, message |-> Undefined]}

\* a catch block that swallows every failure
catchBlock_Silent(error, shown) == shown

\* the catch block: the alerts after openURL failed with error
catchBlock(error, shown) ==
    IF error.instanceOfError THEN Append(shown, error.message) ELSE shown

InitLink ==
    /\ pendingOpens = 0
    /\ openFailures = <<>>
    /\ alerts = <<>>
    /\ presses = 0

\* the button is pressed: the handler calls Linking.openURL('concordium://')
\* and awaits the promise
PressDeepLink ==
    /\ presses < MaxPresses
    /\ presses' = presses + 1
    /\ pendingOpens' = pendingOpens + 1
    /\ UNCHANGED <<openFailures, alerts, notLinkVars>>

\* the URL was opened: the handler returns
OpenURLResolves ==
    /\ pendingOpens > 0
    /\ pendingOpens' = pendingOpens - 1
    /\ UNCHANGED <<openFailures, alerts, presses, notLinkVars>>

\* opening failed: the await throws and the catch block runs
OpenURLRejects ==
    /\ pendingOpens > 0
    /\ \E error \in ThrownValues :
        /\ openFailures' = Append(openFailures, error)
        /\ alerts' = catchBlock(error, alerts)
    /\ pendingOpens' = pendingOpens - 1
    /\ UNCHANGED <<presses, notLinkVars>>

LinkNext == PressDeepLink \/ OpenURLResolves \/ OpenURLRejects

(***************************************************************************)
(* WalletConnectionDelegate: the interface declares the four callbacks and *)
(* documents that "implementations should check the argument values        *)
(* against the current state and only react if they differ".               *)
(***************************************************************************)
Connections == {"connection1", "connection2"}
GenesisHashes == {"genesis1", "genesis2"}
NotConnected == "notConnected"
AddressArgs == AccountAddresses \cup {Undefined}

\* the delegate's state: what it knows, and the effects it has triggered
Delegate(a, c, r) == [accounts |-> a, chains |-> c, reactions |-> r]

onChainChanged(d, connection, genesisHash) ==
    IF d.chains[connection] = genesisHash THEN d
    ELSE Delegate(d.accounts, [d.chains EXCEPT ![connection] = genesisHash],
                  d.reactions + 1)

\* a delegate that reacts to every delivery
onAccountChanged_NoDiff(d, connection, address) ==
    Delegate([d.accounts EXCEPT ![connection] = address], d.chains, d.reactions + 1)

onAccountChanged(d, connection, address) ==
    IF d.accounts[connection] = address THEN d
    ELSE Delegate([d.accounts EXCEPT ![connection] = address], d.chains,
                  d.reactions + 1)

onConnected(d, connection, address) ==
    IF d.accounts[connection] = address THEN d
    ELSE Delegate([d.accounts EXCEPT ![connection] = address], d.chains,
                  d.reactions + 1)

onDisconnected(d, connection) ==
    IF d.accounts[connection] = NotConnected /\ d.chains[connection] = Undefined
    THEN d
    ELSE Delegate([d.accounts EXCEPT ![connection] = NotConnected],
                  [d.chains EXCEPT ![connection] = Undefined], d.reactions + 1)

Observable == Delegate(accounts, chains, reactions)

NoNotif == [kind |-> "none", connection |-> "none", arg |-> "none", repeated |-> FALSE]

InitDelegate ==
    /\ accounts = [c \in Connections |-> NotConnected]
    /\ chains = [c \in Connections |-> Undefined]
    /\ reactions = 0
    /\ lastNotif = NoNotif
    /\ obsBefore = Delegate([c \in Connections |-> NotConnected],
                            [c \in Connections |-> Undefined], 0)

\* a connector delivers notification (kind, connection, arg), which leaves
\* the delegate in state d
Deliver(kind, connection, arg, d) ==
    /\ reactions < MaxReactions
    /\ accounts' = d.accounts
    /\ chains' = d.chains
    /\ reactions' = d.reactions
    /\ lastNotif' = [kind |-> kind, connection |-> connection, arg |-> arg,
                     repeated |-> /\ lastNotif.kind = kind
                                  /\ lastNotif.connection = connection
                                  /\ lastNotif.arg = arg]
    /\ obsBefore' = Observable
    /\ UNCHANGED notDelegateVars

NotifyChainChanged ==
    \E c \in Connections, g \in GenesisHashes :
        Deliver("onChainChanged", c, g, onChainChanged(Observable, c, g))

NotifyAccountChanged ==
    \E c \in Connections, a \in AddressArgs :
        Deliver("onAccountChanged", c, a, onAccountChanged(Observable, c, a))

NotifyConnected ==
    \E c \in Connections, a \in AddressArgs :
        Deliver("onConnected", c, a, onConnected(Observable, c, a))

NotifyDisconnected ==
    \E c \in Connections :
        Deliver("onDisconnected", c, "none", onDisconnected(Observable, c))

DelegateNext ==
    \/ NotifyChainChanged
    \/ NotifyAccountChanged
    \/ NotifyConnected
    \/ NotifyDisconnected

(***************************************************************************)
(* components/counter: Counter. A press runs its handler, which hands      *)
(* setCount an updater; React applies the updater to the current state and *)
(* renders the new count before the next press is handled.                 *)
(***************************************************************************)
\* useState(0)
InitialCount == 0

\* a copy-paste slip: the updater of the other button
decrement_Adds(state) == state + 1

\* the updater increment passes to setCount
increment(state) == state + 1

\* the updater decrement passes to setCount
decrement(state) == state - 1

InitCounter ==
    /\ count = InitialCount
    /\ pressLog = <<>>
    /\ countLog = <<InitialCount>>

\* the '+' button is pressed
PressIncrement ==
    /\ Len(pressLog) < MaxCounterPresses
    /\ count' = increment(count)
    /\ pressLog' = Append(pressLog, "+")
    /\ countLog' = Append(countLog, count')
    /\ UNCHANGED notCounterVars

\* the '-' button is pressed
PressDecrement ==
    /\ Len(pressLog) < MaxCounterPresses
    /\ count' = decrement(count)
    /\ pressLog' = Append(pressLog, "-")
    /\ countLog' = Append(countLog, count')
    /\ UNCHANGED notCounterVars

CounterNext == PressIncrement \/ PressDecrement

(***************************************************************************)
(* Specifications: one per component, the others at rest.                  *)
(***************************************************************************)
Init ==
    InitHelpers /\ InitRpc /\ InitTx /\ InitLink /\ InitDelegate /\ InitCounter

SpecHelpers == Init /\ [][HelpersNext]_vars

SpecRpc == Init /\ [][RpcNext]_vars

SpecTx == Init /\ [][TxNext]_vars

SpecDeepLink == Init /\ [][LinkNext]_vars

SpecDelegate == Init /\ [][DelegateNext]_vars

SpecCounter == Init /\ [][CounterNext]_vars

(***************************************************************************)
(* Properties of the schema and message helpers (SpecHelpers).             *)
(***************************************************************************)
\* RFC 4648: the number of trailing '=' of s
RECURSIVE PadLen(_)
PadLen(s) ==
    IF s # <<>> /\ s[Len(s)] = "=" THEN 1 + PadLen(SubSeq(s, 1, Len(s) - 1)) ELSE 0

\* RFC 4648: the digits of s before its padding
DataPart(s) == SubSeq(s, 1, Len(s) - PadLen(s))

\* the alphabet value of a digit of the standard alphabet
DigitValue(c) == (CHOOSE i \in 1..64 : B64Code[i] = c) - 1

\* RFC 4648: s is the encoding of some byte sequence: whole quanta of four
\* characters, digits of the standard alphabet followed by at most two '=',
\* and the bits of the last digit that encode no byte are zero
IsCanonicalBase64(s) ==
    LET pad == PadLen(s)
        d == DataPart(s)
    IN  /\ Len(s) % 4 = 0
        /\ pad <= 2
        /\ \A i \in DOMAIN d : d[i] \in B64Digits
        /\ pad = 1 => DigitValue(d[Len(d)]) % 4 = 0
        /\ pad = 2 => DigitValue(d[Len(d)]) % 16 = 0

\* RFC 4648: the bytes a canonical string encodes, quantum by quantum: the
\* digits of a quantum are a number in base 64, its bytes that number in
\* base 256 once the bits that encode no byte are dropped
RECURSIVE DigitsNumber(_)
DigitsNumber(d) ==
    IF d = <<>> THEN 0
    ELSE DigitsNumber(SubSeq(d, 1, Len(d) - 1)) * 64 + DigitValue(d[Len(d)])

RECURSIVE NumberBytes(_, _)
NumberBytes(n, howMany) ==
    IF howMany = 0 THEN <<>>
    ELSE Append(NumberBytes(n \div 256, howMany - 1), n % 256)

RECURSIVE DecodedBytes(_)
DecodedBytes(s) ==
    IF s = <<>> THEN <<>>
    ELSE LET d == DataPart(SubSeq(s, 1, 4))
             n == DigitsNumber(d)
         IN  (CASE Len(d) = 4 -> NumberBytes(n, 3)
                [] Len(d) = 3 -> NumberBytes(n \div 4, 2)
                [] Len(d) = 2 -> NumberBytes(n \div 16, 1)
                [] OTHER -> <<>>)
             \o DecodedBytes(SubSeq(s, 5, Len(s)))

\* C1: moduleSchemaFromBase64(s) returns a schema whose value re-encodes to s
\* when s is a canonical base64 encoding, and throws an Error (returning no
\* schema) for every other string.
C1_CanonicalRoundTrip ==
    call.op = "moduleSchemaFromBase64" =>
        LET s == call.args.schemaBase64
        IN  IF IsCanonicalBase64(s)
            THEN /\ ret.status = "returned"
                 /\ ToBase64(ret.value.value) = s
            ELSE /\ ret.status = "threw"
                 /\ ret.value.type = "Error"

\* a padded canonical string of two quanta was accepted
C1_Witness ==
    /\ call.op = "moduleSchemaFromBase64"
    /\ IsCanonicalBase64(call.args.schemaBase64)
    /\ Len(call.args.schemaBase64) = 8
    /\ PadLen(call.args.schemaBase64) = 1
    /\ ret.status = "returned"
    /\ Len(ret.value.value) = 5

\* strings of hex digits of even length, in either letter case
IsHex(s) == Len(s) % 2 = 0 /\ \A i \in DOMAIN s : IsHexDigit(s[i])

\* strings of the digits 0-9 and a-f of even length
IsLowerHex(s) ==
    Len(s) % 2 = 0 /\ \A i \in DOMAIN s : \E k \in 1..16 : HexCode[k] = s[i]

\* C2 as stated: binaryMessageFromHex(s, schema) returns a message whose value
\* re-encodes to s for every even-length string of hex digits in either
\* letter case, and throws for malformed hex.
C2_EitherCaseRoundTrip ==
    call.op = "binaryMessageFromHex" =>
        LET s == call.args.msgHex
        IN  IF IsHex(s)
            THEN /\ ret.status = "returned"
                 /\ ToHex(ret.value.value) = s
            ELSE ret.status = "threw"

\* C2 amended: binaryMessageFromHex(s, schema) returns a message whose value
\* re-encodes to s exactly for the even-length strings of the lowercase hex
\* digits 0-9 a-f; for every other string (odd length, a non-hex character,
\* an uppercase hex letter) it throws an Error.
C2_LowerCaseRoundTrip ==
    call.op = "binaryMessageFromHex" =>
        LET s == call.args.msgHex
        IN  IF IsLowerHex(s)
            THEN /\ ret.status = "returned"
                 /\ ret.value.schema = call.args.schema
                 /\ ToHex(ret.value.value) = s
            ELSE /\ ret.status = "threw"
                 /\ ret.value.type = "Error"

\* a two-byte lowercase message was accepted
C2_Witness ==
    /\ call.op = "binaryMessageFromHex"
    /\ IsLowerHex(call.args.msgHex)
    /\ Len(call.args.msgHex) = 4
    /\ ret.status = "returned"
    /\ Len(ret.value.value) = 2

\* C6: typeSchemaFromBase64(s) returns exactly when s re-encodes to itself,
\* its value is then the value moduleSchemaFromBase64(s) returns, and the
\* TypeSchema it returns has the fields type and value only (no version).
C6_TypeSchemaSameContract ==
    call.op = "typeSchemaFromBase64" =>
        LET s == call.args.schemaBase64
            m == moduleSchemaFromBase64(s, Undefined)
        IN  /\ (ret.status = "returned") <=> (ToBase64(FromBase64(s)) = s)
            /\ ret.status = m.status
            /\ ret.status = "returned" =>
                /\ ret.value.type = "TypeSchema"
                /\ ret.value.value = m.value.value
                /\ DOMAIN ret.value = {"type", "value"}
            /\ ret.status = "threw" => ret.value = m.value

\* a type schema of two bytes was built from a string with one '='
C6_Witness ==
    /\ call.op = "typeSchemaFromBase64"
    /\ ret.status = "returned"
    /\ Len(ret.value.value) = 2
    /\ PadLen(call.args.schemaBase64) = 1

\* the variant each constructor builds
VariantOf(op) ==
    CASE op \in {"moduleSchema", "moduleSchemaFromBase64"} -> "ModuleSchema"
      [] op \in {"typeSchema", "typeSchemaFromBase64"} -> "TypeSchema"
      [] op = "stringMessage" -> "StringMessage"
      [] op = "binaryMessageFromHex" -> "BinaryMessage"

\* C7: typeSchema(b).type is 'TypeSchema' and moduleSchema(b, v).type is
\* 'ModuleSchema' for every b and v, and every value any of the six
\* constructors returns carries the discriminant of its own variant (a
\* BinaryMessage also that of the TypeSchema it holds).
C7_Discriminants ==
    (call.op # "none" /\ ret.status = "returned") =>
        /\ ret.value.type = VariantOf(call.op)
        /\ call.op = "binaryMessageFromHex" => ret.value.schema.type = "TypeSchema"

\* typeSchema was applied to a non-empty byte sequence
C7_Witness ==
    /\ call.op = "typeSchema"
    /\ Len(call.args.schema) = MaxBytesLen
    /\ ret.status = "returned"
    /\ ret.value.value = call.args.schema

\* C10: for a canonical base64 string s and any version v, omitted or not,
\* moduleSchemaFromBase64(s, v) returns a ModuleSchema whose version is v and
\* whose value is the bytes s encodes; 'AAE=' gives the bytes 0x00, 0x01.
C10_VersionAndBytes ==
    (call.op = "moduleSchemaFromBase64" /\ IsCanonicalBase64(call.args.schemaBase64)) =>
        /\ ret.status = "returned"
        /\ ret.value.type = "ModuleSchema"
        /\ DOMAIN ret.value = {"type", "value", "version"}
        /\ ret.value.version = call.args.version
        /\ ret.value.value = DecodedBytes(call.args.schemaBase64)
        /\ call.args.schemaBase64 = <<"A", "A", "E", "=">> => ret.value.value = <<0, 1>>

\* moduleSchemaFromBase64('AAE=', V1) was evaluated
C10_Witness ==
    /\ call.op = "moduleSchemaFromBase64"
    /\ call.args.schemaBase64 = <<"A", "A", "E", "=">>
    /\ call.args.version = "V1"
    /\ ret.status = "returned"

(***************************************************************************)
(* Properties of withJsonRpcClient (SpecRpc).                              *)
(***************************************************************************)
\* C3: when connection.getJsonRpcClient() throws, the promise of
\* withJsonRpcClient is rejected with that same error and f is never invoked.
C3_ClientFailurePropagates ==
    \A i \in DOMAIN invocations :
        invocations[i].connection.kind = "throws" =>
            /\ invocations[i].promise = Rejected(invocations[i].connection.v)
            /\ invocations[i].fCalledWith = <<>>

\* two invocations whose getJsonRpcClient threw different errors
C3_Witness ==
    /\ Len(invocations) = 2
    /\ invocations[1].connection.kind = "throws"
    /\ invocations[2].connection.kind = "throws"
    /\ invocations[1].promise # invocations[2].promise

\* C4: when connection.getJsonRpcClient() returns client c, f is invoked
\* exactly once, with c; the promise resolves to the value f resolves to; and
\* when f rejects or throws it is rejected with exactly f's error.
C4_ResultOfF ==
    \A i \in DOMAIN invocations :
        LET inv == invocations[i]
        IN  inv.connection.kind = "returns" =>
                /\ inv.fCalledWith = <<inv.connection.v>>
                /\ inv.f.kind = "throws" => inv.promise = Rejected(inv.f.v)
                /\ inv.promise.state = "fulfilled" =>
                       inv.f.kind = "resolves" /\ inv.promise.value = inv.f.v
                /\ inv.promise.state = "rejected" =>
                       inv.f.kind \in {"rejects", "throws"} /\ inv.promise.value = inv.f.v

\* one invocation fulfilled with f's value, another rejected by f's promise
C4_Witness ==
    /\ Len(invocations) = 2
    /\ invocations[1].connection.kind = "returns"
    /\ invocations[1].promise.state = "fulfilled"
    /\ invocations[2].connection.kind = "returns"
    /\ invocations[2].f.kind = "rejects"
    /\ invocations[2].promise.state = "rejected"

(***************************************************************************)
(* Properties of signAndSendTransaction (SpecTx).                          *)
(***************************************************************************)
\* the two caller errors the claim names
MissingTypedParams ==
    /\ txCall.type \in ContractTypes
    /\ txCall.parameters = "nonEmpty"
    /\ ~txCall.hasTypedParams

UnexpectedTypedParams ==
    /\ txCall.type \notin ContractTypes
    /\ txCall.hasTypedParams

\* C5: a contract init/update call with non-empty parameters and no
\* typedParams, and a call of a non-contract type with typedParams, is
\* rejected as a precondition violation, and no request reaches the wallet.
C5_PreconditionRejected ==
    (txCall # NoTx /\ (MissingTypedParams \/ UnexpectedTypedParams)) =>
        /\ txState = Rejected("PreconditionViolation")
        /\ walletInbox = <<>>

\* an Update with parameters and without typedParams was rejected
C5_Witness ==
    /\ txCall # NoTx
    /\ txCall.type = "Update"
    /\ MissingTypedParams
    /\ txState.state = "rejected"

(***************************************************************************)
(* Properties of the deep-link handler (SpecDeepLink).                     *)
(***************************************************************************)
\* C8 as stated: every failure of the open, whatever the value, showed an
\* alert carrying its message.
C8_EveryFailureAlerts ==
    /\ Len(alerts) = Len(openFailures)
    /\ \A i \in DOMAIN alerts : alerts[i] = openFailures[i].message

\* the messages of the failures that are Error instances
RECURSIVE ErrorMessages(_)
ErrorMessages(failures) ==
    IF failures = <<>> THEN <<>>
    ELSE (IF Head(failures).instanceOfError THEN <<Head(failures).message>> ELSE <<>>)
         \o ErrorMessages(Tail(failures))

\* C8 amended: every failure of the open with an Error instance shows an
\* alert carrying that error's message; a failure with any other value shows
\* no alert.
C8_ErrorFailuresAlert ==
    alerts = ErrorMessages(openFailures)

\* an Error failure alerted after a failure that is no Error passed silently
C8_Witness ==
    /\ Len(openFailures) = 2
    /\ ~openFailures[1].instanceOfError
    /\ openFailures[2].instanceOfError
    /\ alerts = <<openFailures[2].message>>

(***************************************************************************)
(* Properties of the delegate (SpecDelegate).                              *)
(***************************************************************************)
\* C9: when the account-changed notification is delivered twice in a row
\* with the same connection and address, the delegate's observable state
\* after the second delivery is its state after the first.
C9_RedundantAccountChanged ==
    (lastNotif.kind = "onAccountChanged" /\ lastNotif.repeated) =>
        Observable = obsBefore

\* an address was delivered twice in a row after the first delivery changed it
C9_Witness ==
    /\ lastNotif.kind = "onAccountChanged"
    /\ lastNotif.repeated
    /\ lastNotif.arg \in AccountAddresses
    /\ accounts[lastNotif.connection] = lastNotif.arg
    /\ reactions > 0

(***************************************************************************)
(* Properties of the Counter (SpecCounter).                                *)
(***************************************************************************)
\* how many of the presses were of button b
RECURSIVE PressCount(_, _)
PressCount(log, b) ==
    IF log = <<>> THEN 0
    ELSE (IF Head(log) = b THEN 1 ELSE 0) + PressCount(Tail(log), b)

\* C11: the Counter starts at 0; after any sequence of presses the displayed
\* count is the number of '+' presses minus the number of '-' presses; each
\* press changes the count by exactly one (up for '+', down for '-'); and a
\* '+' followed by a '-' leaves the count it started from. (That the count
\* may go negative is what the witness reaches.)
C11_CountIsDifference ==
    /\ countLog[1] = 0
    /\ Len(countLog) = Len(pressLog) + 1
    /\ count = countLog[Len(countLog)]
    /\ count = PressCount(pressLog, "+") - PressCount(pressLog, "-")
    /\ \A i \in DOMAIN pressLog :
        countLog[i + 1] - countLog[i] = IF pressLog[i] = "+" THEN 1 ELSE 0 - 1
    /\ \A i \in DOMAIN pressLog :
        (i > 1 /\ pressLog[i - 1] = "+" /\ pressLog[i] = "-") =>
            countLog[i + 1] = countLog[i - 1]

\* the count is negative after presses of both buttons, a '+' directly
\* followed by a '-' among them
C11_Witness ==
    /\ count < 0
    /\ Len(pressLog) >= 4
    /\ \E i \in DOMAIN pressLog :
        i > 1 /\ pressLog[i - 1] = "+" /\ pressLog[i] = "-" /\ countLog[i - 1] < 0

====
